---- MODULE Spec2Model ----
(***************************************************************************)
(* AgentAbilityEngine: the capability registry (AbilityManager) and the    *)
(* resilient product search capability (ProductSearchAbility).             *)
(*                                                                         *)
(* Spec        the registry: register / get_ability / list_abilities /     *)
(*             execute_ability over the four capability classes.           *)
(* SpecSearch  one ProductSearchAbility instance serving invocations       *)
(*             against a nondeterministic search engine.                   *)
(* SpecServer  the server process: a search invocation and the dispatch of *)
(*             requests for other capabilities on one event loop.          *)
(* SpecPair    two search invocations of the one instance on the event     *)
(*             loop.                                                       *)
(* SpecValidate  the validators of the four capabilities on contexts with  *)
(*             values of any basic type.                                   *)
(* SpecTotals  search invocations against an engine that answers every     *)
(*             query, with the total-hit field in each of its shapes.      *)
(* SpecSales   the analyses of SalesAnalyzer on bounded sales tables.      *)
(***************************************************************************)
EXTENDS Integers, Sequences, FiniteSets, TLC

VARIABLES
    \* ---- AbilityManager -------------------------------------------------
    abilities,   \* self._abilities: dict name -> capability instance
    regLog,      \* history: the register calls so far, in order
    pc,          \* position of the dispatch in flight ("ready" when none)
    op,          \* the registry operation last called
    name,        \* its `name` argument
    context,     \* the context object handed to execute_ability
    context0,    \* history: the caller's context as it was at the call
    ability,     \* local `ability` of execute_ability
    calls,       \* history: capability methods invoked by this dispatch
    vres,        \* history: what ability.validate produced
    eres,        \* history: what ability.execute produced
    outcome,     \* what the operation returned or raised to its caller
    \* ---- ProductSearchAbility -------------------------------------------
    es_client,        \* self.es_client: the stored handle, NoClient when None
    fallback_enabled, \* self.fallback_config["enabled"]
    s_pc,             \* position of the execute call in flight
    s_context,        \* the context handed to execute
    keyword,          \* execute: local `keyword` (stripped)
    ex_client,        \* execute: local `es_client`
    fn_client,        \* _fuzzy_search / _get_fallback_recommendations: local `es_client`
    attempt,          \* the retry loops' `attempt`
    last_exception,   \* the retry loops' `last_exception` (its class)
    random_keyword,   \* _get_fallback_recommendations: local `random_keyword`
    search_results,   \* execute: local `search_results`
    result,           \* the value execute returned
    caught,           \* history: where the exception caught at line 213 came from
    log,              \* history: external calls of this invocation, in order
    p_response,       \* history: the response the primary query was answered with
    f_response,       \* history: the response the fallback query was answered with
    es_client0,       \* history: the stored handle when the invocation began
    \* ---- SalesAnalyzer --------------------------------------------------
    df,               \* the sales table handed to an analysis method
    analysis,         \* what the analysis method returned
    \* ---- the event loop -------------------------------------------------
    peer,             \* the frame of the search invocation that is not running
    queued            \* a search request is accepted and its coroutine not started

regVars == <<abilities, regLog, pc, op, name, context, context0, ability,
             calls, vres, eres, outcome>>
searchVars == <<es_client, fallback_enabled, s_pc, s_context, keyword, ex_client,
                fn_client, attempt, last_exception, random_keyword, search_results,
                result, caught, log, p_response, f_response, es_client0>>
salesVars == <<df, analysis>>
loopVars == <<peer, queued>>
vars == <<regVars, searchVars, salesVars, loopVars>>

\* What the registry's actions and the search's actions leave alone.
notRegistry == <<searchVars, salesVars, loopVars>>
notSearch == <<regVars, salesVars, loopVars>>

-----------------------------------------------------------------------------
(* Bounds *)

MaxRegs == 3         \* register calls explored

MaxHits == 1         \* hits in one engine response

-----------------------------------------------------------------------------
(* Values *)

\* A context value is a sequence of symbols: a str is the sequence of its
\* characters (or one symbol standing for a longer text); the values that are
\* not of type str are tagged.
Str(text) == <<text>>

NoneV == <<"<None>">>

IntV == <<"<int>">>

NonStr == {NoneV, IntV}

\* A mutant of isinstance_str: only None is turned down.
isinstance_str_notNone(v) == v # NoneV

isinstance_str(v) == v \notin NonStr

NoError == [type |-> "", msg |-> "", arg |-> ""]

Error(t, m, a) == [type |-> t, msg |-> m, arg |-> a]

\* A capability instance: name and version properties plus its class.
NoAbility == [name |-> "", version |-> "", cls |-> ""]

WebCrawlerAbility == [name |-> "web_crawler", version |-> "1.0.0", cls |-> "WebCrawlerAbility"]

SalesAnalyzer == [name |-> "sales_analyzer", version |-> "1.0.0", cls |-> "SalesAnalyzer"]

LoginAbility == [name |-> "login", version |-> "1.0.0", cls |-> "LoginAbility"]

ProductSearchAbility == [name |-> "product_search", version |-> "1.0.0", cls |-> "ProductSearchAbility"]

\* A later release of a capability, registered under the same name.
WebCrawlerAbilityV2 == [name |-> "web_crawler", version |-> "2.0.0", cls |-> "WebCrawlerAbility"]

Abilities == {WebCrawlerAbility, SalesAnalyzer, LoginAbility, ProductSearchAbility,
              WebCrawlerAbilityV2}

Names == {a.name : a \in Abilities} \cup {"translate"}

\* A mutant of valid_analysis_types: only the grouped analyses are listed.
valid_analysis_types_grouped ==
    {Str("sales_by_region"), Str("sales_by_product"), Str("sales_by_channel")}

valid_analysis_types ==
    {Str("basic_stats"), Str("sales_by_region"), Str("sales_by_product"),
     Str("sales_by_channel"), Str("profit_analysis"), Str("visualization")}

\* Contexts handed to the dispatcher: dicts from keys to values.
Contexts ==
    { <<>>,
      [url |-> Str("https://example.com")],
      [keyword |-> Str("necklace")],
      [keyword |-> IntV],
      [file_url |-> Str("https://obs/sales.xlsx"), analysis_type |-> Str("basic_stats")],
      [file_url |-> Str("https://obs/sales.xlsx"), analysis_type |-> Str("forecast")],
      [username |-> Str("admin"), password |-> Str("admin123")] }

has(ctx, k) == k \in DOMAIN ctx

-----------------------------------------------------------------------------
(* The capability classes, as the registry sees them *)

Returned(b) == [kind |-> "return", ret |-> b, err |-> NoError]

Raised(e) == [kind |-> "raise", ret |-> FALSE, err |-> e]

\* BaseAbility.validate of each class.
validate(cls, ctx) ==
    CASE cls = "WebCrawlerAbility" ->
            Returned(has(ctx, "url") /\ isinstance_str(ctx["url"]))
      [] cls = "SalesAnalyzer" ->
            IF ~(has(ctx, "file_url") /\ has(ctx, "analysis_type"))
            THEN Raised(Error("ValueError", "Missing required fields", "validate"))
            ELSE IF ctx["analysis_type"] \notin valid_analysis_types
            THEN Raised(Error("ValueError", "Invalid analysis type", "validate"))
            ELSE Returned(TRUE)
      [] cls = "LoginAbility" ->
            Returned(has(ctx, "username") /\ has(ctx, "password"))
      [] cls = "ProductSearchAbility" ->
            Returned(has(ctx, "keyword") /\ isinstance_str(ctx["keyword"]))

Value(v) == [kind |-> "return", ret |-> v, err |-> NoError]

Thrown(e) == [kind |-> "raise", ret |-> "", err |-> e]

NoResult == [kind |-> "none", ret |-> "", err |-> NoError]

NoValidation == [kind |-> "none", ret |-> FALSE, err |-> NoError]

\* BaseAbility.execute of each class: the results and errors it can produce
\* for a validated context.
ExecOutcomes(cls) ==
    CASE cls = "WebCrawlerAbility" -> {Value("status 200")}
      [] cls = "SalesAnalyzer" ->
            {Value("analysis"),
             Thrown(Error("Exception", "Failed to download file from URL", "execute")),
             Thrown(Error("KeyError", "date", "execute"))}
      [] cls = "LoginAbility" ->
            {Value("login success"), Value("login failure")}
      [] cls = "ProductSearchAbility" ->
            {Value("search success"), Value("search failure")}

-----------------------------------------------------------------------------
(* AbilityManager *)

EmptyDict == [n \in {} |-> NoAbility]

\* A mutant of register: the first registration under a name is kept.
register_keepsFirst(dict, a) ==
    [n \in DOMAIN dict \cup {a.name} |-> IF n \in DOMAIN dict THEN dict[n] ELSE a]

\* A mutant of register: the mapping is replaced instead of updated.
register_replacesAll(dict, a) == [n \in {a.name} |-> a]

\* register, line 16: self._abilities[ability.name] = ability
register(dict, a) ==
    [n \in DOMAIN dict \cup {a.name} |-> IF n = a.name THEN a ELSE dict[n]]

\* A mutant of get_ability: a missing name falls back to a registered capability.
get_ability_fallsBack(dict, n) ==
    IF n \notin DOMAIN dict /\ DOMAIN dict = {}
    THEN [kind |-> "raise", ability |-> NoAbility,
          err |-> Error("KeyError", "Ability not found", n)]
    ELSE [kind |-> "return", err |-> NoError,
          ability |-> IF n \in DOMAIN dict THEN dict[n]
                      ELSE dict[CHOOSE m \in DOMAIN dict : TRUE]]

\* get_ability, lines 30-32: KeyError for a missing name, else the instance.
get_ability(dict, n) ==
    IF n \notin DOMAIN dict
    THEN [kind |-> "raise", ability |-> NoAbility,
          err |-> Error("KeyError", "Ability not found", n)]
    ELSE [kind |-> "return", ability |-> dict[n], err |-> NoError]

\* list_abilities: {name: ability.version}
list_abilities(dict) == [n \in DOMAIN dict |-> dict[n].version]

NoListing == [n \in {} |-> ""]

RegInit ==
    /\ abilities = EmptyDict
    /\ regLog = <<>>
    /\ pc = "ready"
    /\ op = "init"
    /\ name = ""
    /\ context = <<>>
    /\ context0 = <<>>
    /\ ability = NoAbility
    /\ calls = <<>>
    /\ vres = NoValidation
    /\ eres = NoResult
    /\ outcome = [kind |-> "none", ret |-> "", err |-> NoError, listing |-> NoListing,
                  ability |-> NoAbility]

Out(kind, ret, err) ==
    [kind |-> kind, ret |-> ret, err |-> err, listing |-> NoListing, ability |-> NoAbility]

\* A fresh call of a registry operation: the previous call's locals are gone.
StartCall(o, n, ctx) ==
    /\ pc = "ready"
    /\ op' = o
    /\ name' = n
    /\ context' = ctx
    /\ context0' = ctx
    /\ calls' = <<>>
    /\ vres' = NoValidation
    /\ eres' = NoResult

Register(a) ==
    /\ Len(regLog) < MaxRegs
    /\ StartCall("register", a.name, <<>>)
    /\ abilities' = register(abilities, a)
    /\ regLog' = Append(regLog, a)
    /\ ability' = NoAbility
    /\ outcome' = Out("return", "None", NoError)
    /\ pc' = "ready"
    /\ UNCHANGED notRegistry

GetAbility(n) ==
    /\ StartCall("get_ability", n, <<>>)
    /\ LET g == get_ability(abilities, n)
       IN outcome' = [Out(g.kind, "", g.err) EXCEPT !.ability = g.ability]
    /\ ability' = NoAbility
    /\ pc' = "ready"
    /\ UNCHANGED <<abilities, regLog, notRegistry>>

ListAbilities ==
    /\ StartCall("list_abilities", "", <<>>)
    /\ outcome' = [Out("return", "", NoError) EXCEPT !.listing = list_abilities(abilities)]
    /\ ability' = NoAbility
    /\ pc' = "ready"
    /\ UNCHANGED <<abilities, regLog, notRegistry>>

\* execute_ability, line 48: ability = self.get_ability(name)
ExecuteAbility_Lookup(n, ctx) ==
    /\ StartCall("execute_ability", n, ctx)
    /\ LET g == get_ability(abilities, n)
       IN IF g.kind = "raise"
          THEN /\ outcome' = Out("raise", "", g.err)
               /\ ability' = NoAbility
               /\ pc' = "ready"
          ELSE /\ outcome' = Out("none", "", NoError)
               /\ ability' = g.ability
               /\ pc' = "validate"
    /\ UNCHANGED <<abilities, regLog, notRegistry>>

\* A mutant of AfterValidate: a false validate is let through to execute.
AfterValidate_ignoresFalse(v, n) ==
    IF v.kind = "raise"
    THEN [pc |-> "ready", out |-> Out("raise", "", v.err)]
    ELSE [pc |-> "execute", out |-> Out("none", "", NoError)]

\* A mutant of AfterValidate: an error raised by validate is reported as the
\* dispatcher's own invalid-context error.
AfterValidate_wrapsError(v, n) ==
    IF v.kind = "raise" \/ ~v.ret
    THEN [pc |-> "ready",
          out |-> Out("raise", "", Error("ValueError", "Invalid context for ability", n))]
    ELSE [pc |-> "execute", out |-> Out("none", "", NoError)]

\* execute_ability, lines 49-50: what the dispatcher does with the outcome v of
\* `await ability.validate(context)`: an exception propagates, a false result
\* raises ValueError naming the capability, a true result goes on to execute.
AfterValidate(v, n) ==
    IF v.kind = "raise"
    THEN [pc |-> "ready", out |-> Out("raise", "", v.err)]
    ELSE IF ~v.ret
    THEN [pc |-> "ready",
          out |-> Out("raise", "", Error("ValueError", "Invalid context for ability", n))]
    ELSE [pc |-> "execute", out |-> Out("none", "", NoError)]

\* execute_ability, line 49: await ability.validate(context)
ExecuteAbility_Validate ==
    /\ pc = "validate"
    /\ LET v == validate(ability.cls, context)
           d == AfterValidate(v, name)
       IN /\ vres' = v
          /\ calls' = Append(calls, <<"validate", ability>>)
          /\ outcome' = d.out
          /\ pc' = d.pc
    /\ UNCHANGED <<abilities, regLog, op, name, context, context0, ability, eres, notRegistry>>

\* A mutant of ExecuteAbility_Execute: a failed execute is retried once.
ExecuteAbility_Execute_retries ==
    /\ pc = "execute"
    /\ \E e \in ExecOutcomes(ability.cls) :
          /\ eres' = e
          /\ calls' = Append(calls, <<"execute", ability>>)
          /\ IF e.kind = "raise" /\ Len(calls) < 2
             THEN /\ outcome' = outcome
                  /\ pc' = "execute"
             ELSE /\ outcome' = Out(e.kind, e.ret, e.err)
                  /\ pc' = "ready"
    /\ UNCHANGED <<abilities, regLog, op, name, context, context0, ability, vres, notRegistry>>

\* execute_ability, line 51: return await ability.execute(context)
ExecuteAbility_Execute ==
    /\ pc = "execute"
    /\ \E e \in ExecOutcomes(ability.cls) :
          /\ eres' = e
          /\ calls' = Append(calls, <<"execute", ability>>)
          /\ outcome' = Out(e.kind, e.ret, e.err)
    /\ pc' = "ready"
    /\ UNCHANGED <<abilities, regLog, op, name, context, context0, ability, vres, notRegistry>>

-----------------------------------------------------------------------------
(* ProductSearchAbility: configuration, engine responses, results *)

NoClient == 0

\* Identities of client objects. Three references to clients exist at any time
\* (self.es_client, execute's local, the retry loop's local), so three
\* identities tell every live object apart; the identity of a collected
\* object may be given to a new one.
Handles == {1, 2, 3}

\* search_config["min_score"] (0.5), in tenths.
min_score == 5

\* the retry loops' max_attempts
max_attempts == 3

\* fallback_config["keywords"]
fallback_keywords == {"earring", "bracelet"}

\* Relevance scores the engine may attach to a hit, in tenths: one below the
\* minimum score and the minimum score itself.
Scores == {min_score - 1, min_score}

RECURSIVE SeqsUpTo(_, _)
SeqsUpTo(S, n) ==
    IF n = 0 THEN {<<>>}
    ELSE LET shorter == SeqsUpTo(S, n - 1)
         IN shorter \cup {Append(q, x) : q \in {r \in shorter : Len(r) = n - 1}, x \in S}

HitLists == SeqsUpTo(Scores, MaxHits)

\* response["hits"]["total"]: a scalar, a dict with "value", a dict without
\* it, or no such key.
TotalShapes == {"scalar", "value", "dict", "missing"}

TotalField(shape, n) == [shape |-> shape, n |-> IF shape \in {"scalar", "value"} THEN n ELSE 0]

\* The two shapes the engine's versions produce: a scalar (6.x and earlier)
\* and a dict with "value" (7.x and later).
EngineTotalShapes == {"scalar", "value"}

\* Engine responses of a search: the hits returned and the total-hit field,
\* which counts one match more than was returned.
Responses ==
    {[hits |-> h, total |-> TotalField(sh, Len(h) + 1)] : h \in HitLists, sh \in EngineTotalShapes}

\* What es_client.search can do: raise a ConnectionError, raise another
\* exception (also: a response whose processing raises), or respond.
NoResponse == [hits |-> <<>>, total |-> [shape |-> "none", n |-> 0]]

SearchOutcomes ==
    {[kind |-> "ConnectionError", resp |-> NoResponse],
     [kind |-> "Exception", resp |-> NoResponse]}
    \cup {[kind |-> "response", resp |-> r] : r \in Responses}

\* What creating a client can do (lines 100-120): ping true and info read;
\* ping false; ping raising; info raising.
ConnOutcomes == {"ok", "ping_false", "ping_raises", "info_raises"}

\* What the probe es_client.ping(request_timeout=5) can do.
PingOutcomes == {"true", "false", "raises"}

Whitespace == {" "}

\* Keywords of the requests, as sequences of characters.
Keywords == {<<>>, <<" ">>, <<" ", " ", " ">>, <<" ", "a", " ">>}

\* Contexts handed to execute: no keyword at all, or a str keyword.
SearchContexts == {<<>>} \cup {[keyword |-> k] : k \in Keywords}

RECURSIVE lstrip(_)
lstrip(str) ==
    IF str = <<>> THEN <<>>
    ELSE IF Head(str) \in Whitespace THEN lstrip(Tail(str)) ELSE str

RECURSIVE rstrip(_)
rstrip(str) ==
    IF str = <<>> THEN <<>>
    ELSE IF str[Len(str)] \in Whitespace THEN rstrip(SubSeq(str, 1, Len(str) - 1)) ELSE str

\* str.strip()
strip(str) == rstrip(lstrip(str))

\* A mutant of KeywordOf: the keyword is used as given.
KeywordOf_noStrip(ctx) == IF has(ctx, "keyword") THEN ctx["keyword"] ELSE <<>>

\* execute, line 175: context.get("keyword", "").strip()
KeywordOf(ctx) == strip(IF has(ctx, "keyword") THEN ctx["keyword"] ELSE <<>>)

IntTotal(n) == [type |-> "int", n |-> n]

DictTotal == [type |-> "dict", n |-> 0]

NoTotal == [type |-> "absent", n |-> 0]

\* lines 289-301 (and 418-428): the total-hit count read off a response.
TotalOf(resp) ==
    CASE resp.total.shape = "value" -> IntTotal(resp.total.n)
      [] resp.total.shape = "scalar" -> IntTotal(resp.total.n)
      [] resp.total.shape = "dict" -> DictTotal
      [] resp.total.shape = "missing" -> IntTotal(Len(resp.hits))

Product(score, fb, kw) == [score |-> score, is_fallback |-> fb, fallback_keyword |-> kw]

\* A mutant of KeepHit: the comparison is inverted.
KeepHit_inverted(score) == score < min_score

\* line 313: a hit is skipped when score < min_score
KeepHit(score) == ~(score < min_score)

RECURSIVE FormatHits(_)
\* lines 307-325: the products of the hits that are kept
FormatHits(hits) ==
    IF hits = <<>> THEN <<>>
    ELSE IF KeepHit(Head(hits))
         THEN <<Product(Head(hits), FALSE, "")>> \o FormatHits(Tail(hits))
         ELSE FormatHits(Tail(hits))

\* A mutant of FormatFallbackHits: the products are formatted as primary hits.
FormatFallbackHits_untagged(hits, kw) == [i \in 1..Len(hits) |-> Product(hits[i], FALSE, "")]

\* lines 433-446: every hit becomes a product tagged as a fallback
FormatFallbackHits(hits, kw) == [i \in 1..Len(hits) |-> Product(hits[i], TRUE, kw)]

SearchResult(success, error, results, total, original_total, fb, fbkw, okw) ==
    [success |-> success, error |-> error, results |-> results, total |-> total,
     original_total |-> original_total, is_fallback |-> fb,
     fallback_keyword |-> fbkw, original_keyword |-> okw]

NoSearchResult == SearchResult(FALSE, "<no result>", <<>>, 0, NoTotal, FALSE, "", <<>>)

\* lines 180-186
EmptyKeywordResult == SearchResult(FALSE, "Empty search keyword", <<>>, 0, NoTotal, FALSE, "", <<>>)

\* lines 217-223
SearchErrorResult == SearchResult(FALSE, "Search error", <<>>, 0, NoTotal, FALSE, "", <<>>)

\* A mutant of FuzzyResult: total is the engine's count, original_total the
\* number of hits returned.
FuzzyResult_swapsTotals(resp) ==
    SearchResult(TRUE, "", FormatHits(resp.hits), TotalOf(resp).n,
                 IntTotal(Len(resp.hits)), FALSE, "", <<>>)

\* lines 329-335: the value _fuzzy_search returns for a response
FuzzyResult(resp) ==
    LET results == FormatHits(resp.hits)
    IN SearchResult(TRUE, "", results, Len(results), TotalOf(resp), FALSE, "", <<>>)
\* A mutant of FallbackResult: total is the engine's count.
FallbackResult_engineTotal(resp, kw) ==
    LET results == FormatFallbackHits(resp.hits, kw)
    IN SearchResult(TRUE, "", results, TotalOf(resp).n, TotalOf(resp), TRUE, kw, <<>>)

\* lines 448-455: the value _get_fallback_recommendations returns for a response
FallbackResult(resp, kw) ==
    LET results == FormatFallbackHits(resp.hits, kw)
    IN SearchResult(TRUE, "", results, Len(results), TotalOf(resp), TRUE, kw, <<>>)

\* A mutant of FallbackFailedResult: the failure is reported as an untagged
\* search error.
FallbackFailedResult_untagged(kw) ==
    SearchResult(FALSE, "Fallback search failed", <<>>, 0, IntTotal(0), FALSE, "", <<>>)

\* lines 483-491: the value it returns when every attempt failed
FallbackFailedResult(kw) ==
    SearchResult(FALSE, "Fallback search failed", <<>>, 0, IntTotal(0), TRUE, kw, <<>>)

\* A mutant of WantsFallback: the number of kept hits is not looked at.
WantsFallback_anyTotal(res, enabled) == enabled

\* A mutant of WantsFallback: the configuration switch is not looked at.
WantsFallback_ignoresConfig(res, enabled) == res.total = 0

\* line 201: search_results["total"] == 0 and fallback enabled
WantsFallback(res, enabled) == res.total = 0 /\ enabled

-----------------------------------------------------------------------------
(* ProductSearchAbility: the connection *)

Call(what, h, n) == [call |-> what, h |-> h, n |-> n]

\* The identity of a newly created client: one that no live reference holds.
NewHandle(live) == CHOOSE h \in Handles : h \notin live /\ \A g \in Handles : g \notin live => h <= g

\* A mutant of GetEsClient: a client whose creation failed stays stored.
GetEsClient_keepsFailed(stored, live, c) ==
    IF stored # NoClient
    THEN [client |-> stored, raised |-> FALSE, calls |-> <<>>]
    ELSE LET h == NewHandle(live)
         IN [client |-> h, raised |-> c # "ok",
             calls |-> <<Call("create", h, 0), Call("ping", h, 0)>>]

\* A mutant of GetEsClient: a client is created at every call.
GetEsClient_alwaysCreates(stored, live, c) ==
    LET h == NewHandle(live)
    IN [client |-> IF c = "ok" THEN h ELSE NoClient,
        raised |-> c # "ok",
        calls |-> <<Call("create", h, 0), Call("ping", h, 0)>>]

\* _get_es_client (lines 78-134) with self.es_client = stored, when creating
\* a client does c: the new self.es_client, whether ConnectionError is
\* raised, and the external calls made.
GetEsClient(stored, live, c) ==
    IF stored # NoClient
    THEN [client |-> stored, raised |-> FALSE, calls |-> <<>>]
    ELSE LET h == NewHandle(live)
         IN [client |-> IF c = "ok" THEN h ELSE NoClient,
             raised |-> c # "ok",
             calls |-> <<Call("create", h, 0), Call("ping", h, 0)>>]
\* A mutant of Reconnect: a probe that returns false leaves the handle alone.
Reconnect_keepsOnFalse(stored, fn, ex, p, c1, c2) ==
    LET live == {fn, ex}
        probe == <<Call("ping", fn, 0)>>
        g1 == GetEsClient(NoClient, live, c1)
    IN CASE p \in {"true", "false"} ->
               [stored |-> stored, fn |-> fn, raised |-> FALSE, calls |-> probe]
         [] p = "raises" ->
               [stored |-> g1.client, fn |-> IF g1.raised THEN fn ELSE g1.client,
                raised |-> g1.raised, calls |-> probe \o g1.calls]

\* Lines 346-358 (and 464-473): the probe of the loop's client fn and, when it
\* fails, the reset and re-creation of self.es_client. A failure of the
\* re-creation inside the try block is caught by `except Exception`, which
\* resets and re-creates once more; a failure there leaves the loop.
Reconnect(stored, fn, ex, p, c1, c2) ==
    LET live == {fn, ex}
        probe == <<Call("ping", fn, 0)>>
        g1 == GetEsClient(NoClient, live, c1)
        g2 == GetEsClient(NoClient, live, c2)
    IN CASE p = "true" ->
               [stored |-> stored, fn |-> fn, raised |-> FALSE, calls |-> probe]
         [] p = "false" /\ ~g1.raised ->
               [stored |-> g1.client, fn |-> g1.client, raised |-> FALSE,
                calls |-> probe \o g1.calls]
         [] p = "false" /\ g1.raised ->
               [stored |-> g2.client, fn |-> IF g2.raised THEN fn ELSE g2.client,
                raised |-> g2.raised, calls |-> probe \o g1.calls \o g2.calls]
         [] p = "raises" ->
               [stored |-> g1.client, fn |-> IF g1.raised THEN fn ELSE g1.client,
                raised |-> g1.raised, calls |-> probe \o g1.calls]

-----------------------------------------------------------------------------
(* ProductSearchAbility.execute *)

SearchInit ==
    /\ es_client = NoClient
    /\ fallback_enabled \in BOOLEAN
    /\ s_pc = "idle"
    /\ s_context = <<>>
    /\ keyword = <<>>
    /\ ex_client = NoClient
    /\ fn_client = NoClient
    /\ attempt = 0
    /\ last_exception = "None"
    /\ random_keyword = ""
    /\ search_results = NoSearchResult
    /\ result = NoSearchResult
    /\ caught = ""
    /\ log = <<>>
    /\ p_response = NoResponse
    /\ f_response = NoResponse
    /\ es_client0 = NoClient

\* The search part of a state in which the registry alone is running.
SearchIdle ==
    /\ SearchInit
    /\ fallback_enabled

\* execute returns r: its frame and the frames below it are gone.
Return(r) ==
    /\ result' = r
    /\ s_pc' = "done"

\* execute, lines 175-188: a new invocation; an empty keyword returns at once.
Execute_Begin(ctx) ==
    /\ s_pc \in {"idle", "done"}
    /\ s_context' = ctx
    /\ keyword' = KeywordOf(ctx)
    /\ p_response' = NoResponse
    /\ f_response' = NoResponse
    /\ es_client0' = es_client
    /\ log' = <<>>
    /\ caught' = ""
    /\ ex_client' = NoClient
    /\ fn_client' = NoClient
    /\ attempt' = 0
    /\ last_exception' = "None"
    /\ random_keyword' = ""
    /\ search_results' = NoSearchResult
    /\ IF KeywordOf(ctx) = <<>>
       THEN Return(EmptyKeywordResult)
       ELSE /\ result' = NoSearchResult
            /\ s_pc' = "get_client"
    /\ UNCHANGED <<es_client, fallback_enabled, notSearch>>
\* A mutant of Execute_GetClient: a failed connection is not caught; the call
\* ends without a value.
Execute_GetClient_propagates(c) ==
    /\ s_pc = "get_client"
    /\ LET g == GetEsClient(es_client, {}, c)
       IN /\ es_client' = g.client
          /\ log' = log \o g.calls
          /\ IF g.raised
             THEN /\ caught' = "connect"
                  /\ Return(NoSearchResult)
                  /\ UNCHANGED <<ex_client, fn_client>>
             ELSE /\ ex_client' = g.client
                  /\ fn_client' = g.client
                  /\ s_pc' = "primary"
                  /\ UNCHANGED <<caught, result>>
    /\ UNCHANGED <<fallback_enabled, s_context, keyword, attempt, last_exception,
                   random_keyword, search_results, p_response, f_response, es_client0,
                   notSearch>>

\* execute, line 193: es_client = self._get_es_client(); a ConnectionError is
\* caught at line 213.
Execute_GetClient(c) ==
    /\ s_pc = "get_client"
    /\ LET g == GetEsClient(es_client, {}, c)
       IN /\ es_client' = g.client
          /\ log' = log \o g.calls
          /\ IF g.raised
             THEN /\ caught' = "connect"
                  /\ Return(SearchErrorResult)
                  /\ UNCHANGED <<ex_client, fn_client>>
             ELSE /\ ex_client' = g.client
                  /\ fn_client' = g.client
                  /\ s_pc' = "primary"
                  /\ UNCHANGED <<caught, result>>
    /\ UNCHANGED <<fallback_enabled, s_context, keyword, attempt, last_exception,
                   random_keyword, search_results, p_response, f_response, es_client0,
                   notSearch>>

\* A mutant of AttemptFailed: the next attempt follows without a wait.
AttemptFailed_noBackoff(kind, backoff, exhausted, searched) ==
    /\ last_exception' = kind
    /\ IF attempt < max_attempts - 1
       THEN /\ log' = Append(log, searched)
            /\ s_pc' = backoff
            /\ UNCHANGED <<result, caught>>
       ELSE /\ log' = Append(log, searched)
            /\ exhausted

\* A mutant of AttemptFailed: the wait is one unit after every attempt.
AttemptFailed_constantWait(kind, backoff, exhausted, searched) ==
    /\ last_exception' = kind
    /\ IF attempt < max_attempts - 1
       THEN /\ log' = log \o <<searched, Call("sleep", 0, 1)>>
            /\ s_pc' = backoff
            /\ UNCHANGED <<result, caught>>
       ELSE /\ log' = Append(log, searched)
            /\ exhausted

\* A failed attempt (lines 337-344 / 359-367, 457-462 / 474-479): remember the
\* exception; before the last attempt sleep 1 * (attempt + 1), after it leave
\* the loop.
AttemptFailed(kind, backoff, exhausted, searched) ==
    /\ last_exception' = kind
    /\ IF attempt < max_attempts - 1
       THEN /\ log' = log \o <<searched, Call("sleep", 0, 1 * (attempt + 1))>>
            /\ s_pc' = backoff
            /\ UNCHANGED <<result, caught>>
       ELSE /\ log' = Append(log, searched)
            /\ exhausted

\* _fuzzy_search, lines 276-372, one attempt: es_client.search on the loop's
\* client, then either the result goes back to execute (lines 198-211) or the
\* attempt failed.
Primary_Search(o) ==
    /\ s_pc = "primary"
    /\ LET searched == Call("search_primary", fn_client, attempt + 1)
       IN IF o.kind = "response"
          THEN /\ log' = Append(log, searched)
               /\ p_response' = o.resp
               /\ search_results' = FuzzyResult(o.resp)
               /\ IF WantsFallback(FuzzyResult(o.resp), fallback_enabled)
                  THEN /\ s_pc' = "fallback_choose"
                       /\ UNCHANGED result
                  ELSE Return(FuzzyResult(o.resp))
               /\ UNCHANGED <<last_exception, caught>>
          ELSE /\ AttemptFailed(o.kind, "primary_backoff",
                                caught' = "exhausted" /\ Return(SearchErrorResult),
                                searched)
               /\ UNCHANGED <<search_results, p_response>>
    /\ UNCHANGED <<es_client, fallback_enabled, s_context, keyword, ex_client, fn_client,
                   attempt, random_keyword, f_response, es_client0, notSearch>>

\* _fuzzy_search, lines 345-358, after the sleep that follows a ConnectionError.
Primary_Probe(p, c1, c2) ==
    /\ s_pc = "primary_backoff"
    /\ last_exception = "ConnectionError"
    /\ LET r == Reconnect(es_client, fn_client, ex_client, p, c1, c2)
       IN /\ es_client' = r.stored
          /\ fn_client' = r.fn
          /\ log' = log \o r.calls
          /\ IF r.raised
             THEN /\ caught' = "reconnect"
                  /\ Return(SearchErrorResult)
                  /\ UNCHANGED attempt
             ELSE /\ attempt' = attempt + 1
                  /\ s_pc' = "primary"
                  /\ UNCHANGED <<caught, result>>
    /\ UNCHANGED <<fallback_enabled, s_context, keyword, ex_client, last_exception,
                   random_keyword, search_results, p_response, f_response, es_client0,
                   notSearch>>
\* A mutant of Primary_Retry: the stored handle is dropped before the retry.
Primary_Retry_dropsHandle ==
    /\ s_pc = "primary_backoff"
    /\ last_exception = "Exception"
    /\ attempt' = attempt + 1
    /\ es_client' = NoClient
    /\ s_pc' = "primary"
    /\ UNCHANGED <<fallback_enabled, s_context, keyword, ex_client, fn_client,
                   last_exception, random_keyword, search_results, result, caught, log,
                   p_response, f_response, es_client0, notSearch>>

\* A mutant of Primary_Retry: the loop counter stays where it was.
Primary_Retry_sameAttempt ==
    /\ s_pc = "primary_backoff"
    /\ last_exception = "Exception"
    /\ s_pc' = "primary"
    /\ UNCHANGED <<es_client, fallback_enabled, s_context, keyword, ex_client, fn_client,
                   attempt, last_exception, random_keyword, search_results, result, caught,
                   log, p_response, f_response, es_client0, notSearch>>

\* _fuzzy_search, lines 363-367, after the sleep that follows another exception.
Primary_Retry ==
    /\ s_pc = "primary_backoff"
    /\ last_exception = "Exception"
    /\ attempt' = attempt + 1
    /\ s_pc' = "primary"
    /\ UNCHANGED <<es_client, fallback_enabled, s_context, keyword, ex_client, fn_client,
                   last_exception, random_keyword, search_results, result, caught, log,
                   p_response, f_response, es_client0, notSearch>>
\* A mutant of Fallback_Choose: the first configured keyword is always taken.
Fallback_Choose_firstOnly(kw) ==
    /\ s_pc = "fallback_choose"
    /\ kw = "earring"
    /\ random_keyword' = kw
    /\ fn_client' = ex_client
    /\ attempt' = 0
    /\ last_exception' = "None"
    /\ s_pc' = "fallback"
    /\ UNCHANGED <<es_client, fallback_enabled, s_context, keyword, ex_client,
                   search_results, result, caught, log, p_response, f_response,
                   es_client0, notSearch>>

\* execute, line 203, and _get_fallback_recommendations, lines 384-406: the
\* loop's client is the one execute holds; random.choice(keywords).
Fallback_Choose(kw) ==
    /\ s_pc = "fallback_choose"
    /\ random_keyword' = kw
    /\ fn_client' = ex_client
    /\ attempt' = 0
    /\ last_exception' = "None"
    /\ s_pc' = "fallback"
    /\ UNCHANGED <<es_client, fallback_enabled, s_context, keyword, ex_client,
                   search_results, result, caught, log, p_response, f_response,
                   es_client0, notSearch>>

\* lines 204-207: execute marks what _get_fallback_recommendations returned.
Marked(r, kw) == [r EXCEPT !.is_fallback = TRUE, !.original_keyword = kw]

\* _get_fallback_recommendations, lines 408-491, one attempt.
Fallback_Search(o) ==
    /\ s_pc = "fallback"
    /\ LET searched == Call("search_fallback", fn_client, attempt + 1)
       IN IF o.kind = "response"
          THEN /\ log' = Append(log, searched)
               /\ f_response' = o.resp
               /\ Return(Marked(FallbackResult(o.resp, random_keyword), keyword))
               /\ UNCHANGED <<last_exception, caught>>
          ELSE /\ AttemptFailed(o.kind, "fallback_backoff",
                                /\ Return(Marked(FallbackFailedResult(random_keyword), keyword))
                                /\ UNCHANGED caught,
                                searched)
               /\ UNCHANGED f_response
    /\ UNCHANGED <<es_client, fallback_enabled, s_context, keyword, ex_client, fn_client,
                   attempt, random_keyword, search_results, p_response, es_client0,
                   notSearch>>

\* _get_fallback_recommendations, lines 463-473.
Fallback_Probe(p, c1, c2) ==
    /\ s_pc = "fallback_backoff"
    /\ last_exception = "ConnectionError"
    /\ LET r == Reconnect(es_client, fn_client, ex_client, p, c1, c2)
       IN /\ es_client' = r.stored
          /\ fn_client' = r.fn
          /\ log' = log \o r.calls
          /\ IF r.raised
             THEN /\ caught' = "reconnect"
                  /\ Return(SearchErrorResult)
                  /\ UNCHANGED attempt
             ELSE /\ attempt' = attempt + 1
                  /\ s_pc' = "fallback"
                  /\ UNCHANGED <<caught, result>>
    /\ UNCHANGED <<fallback_enabled, s_context, keyword, ex_client, last_exception,
                   random_keyword, search_results, p_response, f_response, es_client0,
                   notSearch>>

\* _get_fallback_recommendations, lines 477-479.
Fallback_Retry ==
    /\ s_pc = "fallback_backoff"
    /\ last_exception = "Exception"
    /\ attempt' = attempt + 1
    /\ s_pc' = "fallback"
    /\ UNCHANGED <<es_client, fallback_enabled, s_context, keyword, ex_client, fn_client,
                   last_exception, random_keyword, search_results, result, caught, log,
                   p_response, f_response, es_client0, notSearch>>

\* The locals and the history of one execute call: what the coroutine's frame
\* holds while another coroutine runs.
Frame ==
    [s_pc |-> s_pc, s_context |-> s_context, keyword |-> keyword, ex_client |-> ex_client,
     fn_client |-> fn_client, attempt |-> attempt, last_exception |-> last_exception,
     random_keyword |-> random_keyword, search_results |-> search_results,
     result |-> result, caught |-> caught, log |-> log, p_response |-> p_response,
     f_response |-> f_response, es_client0 |-> es_client0]

\* The frame of an execute call that has not started.
IdleFrame ==
    [s_pc |-> "idle", s_context |-> <<>>, keyword |-> <<>>, ex_client |-> NoClient,
     fn_client |-> NoClient, attempt |-> 0, last_exception |-> "None",
     random_keyword |-> "", search_results |-> NoSearchResult,
     result |-> NoSearchResult, caught |-> "", log |-> <<>>, p_response |-> NoResponse,
     f_response |-> NoResponse, es_client0 |-> NoClient]

\* No second search invocation is about.
LoopIdle ==
    /\ peer = IdleFrame
    /\ queued = FALSE

NoAnalysis ==
    [kind |-> "none", total_sales |-> 0, total_profit |-> 0, total_orders |-> 0,
     groups |-> <<>>]

\* No sales analysis is running.
SalesIdle ==
    /\ df = <<>>
    /\ analysis = NoAnalysis

InitSearch == RegInit /\ SearchInit /\ SalesIdle /\ LoopIdle

NextSearch ==
    \/ \E ctx \in SearchContexts : Execute_Begin(ctx)
    \/ \E c \in ConnOutcomes : Execute_GetClient(c)
    \/ \E o \in SearchOutcomes : Primary_Search(o)
    \/ \E p \in PingOutcomes, c1, c2 \in ConnOutcomes : Primary_Probe(p, c1, c2)
    \/ Primary_Retry
    \/ \E kw \in fallback_keywords : Fallback_Choose(kw)
    \/ \E o \in SearchOutcomes : Fallback_Search(o)
    \/ \E p \in PingOutcomes, c1, c2 \in ConnOutcomes : Fallback_Probe(p, c1, c2)
    \/ Fallback_Retry

SpecSearch == InitSearch /\ [][NextSearch]_vars


Init == RegInit /\ SearchIdle /\ SalesIdle /\ LoopIdle

Next ==
    \/ \E a \in Abilities : Register(a)
    \/ \E n \in Names : GetAbility(n)
    \/ ListAbilities
    \/ \E n \in Names, ctx \in Contexts : ExecuteAbility_Lookup(n, ctx)
    \/ ExecuteAbility_Validate
    \/ ExecuteAbility_Execute

Spec == Init /\ [][Next]_vars

-----------------------------------------------------------------------------
(* An answering engine: responses with the total-hit field in every shape *)

\* The counts an engine reports in a scalar or a 'value' total.
TotalCounts == {0, 1, 2}

\* Responses with the total-hit field in each of its shapes.
ShapedResponses ==
    {[hits |-> h, total |-> TotalField(sh, n)] :
        h \in HitLists, sh \in TotalShapes, n \in TotalCounts}

ShapedOutcomes == {[kind |-> "response", resp |-> r] : r \in ShapedResponses}

\* Two requests with different keywords.
ShapedContexts == {[keyword |-> <<" ", "a", " ">>], [keyword |-> <<"b">>]}

TotalsInit == InitSearch

\* Invocations, one after the other, against an engine that is reachable and
\* answers every query.
NextTotals ==
    \/ \E ctx \in ShapedContexts : Execute_Begin(ctx)
    \/ Execute_GetClient("ok")
    \/ \E o \in ShapedOutcomes : Primary_Search(o)
    \/ \E kw \in fallback_keywords : Fallback_Choose(kw)
    \/ \E o \in ShapedOutcomes : Fallback_Search(o)

SpecTotals == TotalsInit /\ [][NextTotals]_vars

-----------------------------------------------------------------------------
(* The validators, on contexts whose values have any basic type *)

\* The keys execute reads from the context and uses as str: context["url"]
\* (web_crawler.py, line 37), requests.get(context['file_url']) and the
\* comparisons of analysis_type (sales_analyzer.py, lines 82-106), the string
\* concatenations of username and password (login.py, lines 96-100),
\* context.get("keyword", "").strip() (product_search.py, line 175).
RequiredKeys(cls) ==
    CASE cls = "WebCrawlerAbility" -> {"url"}
      [] cls = "SalesAnalyzer" -> {"file_url", "analysis_type"}
      [] cls = "LoginAbility" -> {"username", "password"}
      [] cls = "ProductSearchAbility" -> {"keyword"}

\* Values a request body can give a key: strings, a number, null.
ValidationValues ==
    {Str("https://example.com"), Str("basic_stats"), Str("forecast"), IntV, NoneV}

\* The contexts over the keys of a capability: every subset of the keys, every
\* choice of values.
ValidationContexts(cls) == UNION {[S -> ValidationValues] : S \in SUBSET RequiredKeys(cls)}

-----------------------------------------------------------------------------
(* SalesAnalyzer: the analyses of a sales table *)

\* The largest number of rows of a table.
MaxRows == 2

Regions == {"north", "south"}
Products == {"laptop", "phone"}
Channels == {"store", "online"}

\* The rows of a sales table, with the columns the analyses below read.  Every
\* cell holds a value: a table with empty cells (NaN) is not in this set.
SalesRows ==
    [region : Regions, product : Products, channel : Channels,
     total_sales : {1, 2}, profit : {0, 1}, quantity : {1}]

\* The tables read_excel can hand to the analyses (line 87), with at least one
\* row.
SalesTables == UNION {[1..n -> SalesRows] : n \in 1..MaxRows}

\* Series.sum(): the sum of one column over the rows.
RECURSIVE ColumnSum(_, _)
ColumnSum(rows, col) ==
    IF rows = <<>> THEN 0
    ELSE ColumnSum(SubSeq(rows, 1, Len(rows) - 1), col) + rows[Len(rows)][col]

Metrics(row) ==
    [total_sales |-> row.total_sales, profit |-> row.profit, quantity |-> row.quantity]

\* A mutant of GroupAgg: a row of a group already seen replaces the group's
\* entry.
RECURSIVE GroupAgg_lastRow(_, _)
GroupAgg_lastRow(rows, col) ==
    IF rows = <<>> THEN <<>>
    ELSE LET acc == GroupAgg_lastRow(SubSeq(rows, 1, Len(rows) - 1), col)
             row == rows[Len(rows)]
         IN  IF row[col] \in DOMAIN acc
             THEN [acc EXCEPT ![row[col]] = Metrics(row)]
             ELSE [k \in DOMAIN acc \cup {row[col]} |->
                       IF k = row[col] THEN Metrics(row) ELSE acc[k]]

\* df.groupby(col).agg({'total_sales': 'sum', 'profit': 'sum', 'quantity':
\* 'sum'}).to_dict('index'): the rows are taken one by one; a row opens the
\* entry of its group or is added to it.  The order sort_values gives the
\* entries (lines 140, 165) is not part of the dict's content.
RECURSIVE GroupAgg(_, _)
GroupAgg(rows, col) ==
    IF rows = <<>> THEN <<>>
    ELSE LET acc == GroupAgg(SubSeq(rows, 1, Len(rows) - 1), col)
             row == rows[Len(rows)]
         IN  IF row[col] \in DOMAIN acc
             THEN [acc EXCEPT ![row[col]] =
                       [total_sales |-> @.total_sales + row.total_sales,
                        profit |-> @.profit + row.profit,
                        quantity |-> @.quantity + row.quantity]]
             ELSE [k \in DOMAIN acc \cup {row[col]} |->
                       IF k = row[col] THEN Metrics(row) ELSE acc[k]]

\* A mutant of basic_stats_analysis: the profit is read from total_sales.
basic_stats_analysis_salesAsProfit(d) ==
    [kind |-> "basic_stats",
     total_sales |-> ColumnSum(d, "total_sales"),
     total_profit |-> ColumnSum(d, "total_sales"),
     total_orders |-> Len(d),
     groups |-> <<>>]

\* _basic_stats_analysis, without average_daily_sales and summary_stats.
basic_stats_analysis(d) ==
    [kind |-> "basic_stats",
     total_sales |-> ColumnSum(d, "total_sales"),
     total_profit |-> ColumnSum(d, "profit"),
     total_orders |-> Len(d),
     groups |-> <<>>]

\* The 'region_sales' entry of _region_analysis, the 'product_analysis' entry
\* of _product_analysis and the 'channel_analysis' entry of _channel_analysis.
GroupAnalysis(kind, col, d) ==
    [kind |-> kind, total_sales |-> 0, total_profit |-> 0, total_orders |-> 0,
     groups |-> GroupAgg(d, col)]

region_analysis(d) == GroupAnalysis("sales_by_region", "region", d)

product_analysis(d) == GroupAnalysis("sales_by_product", "product", d)

channel_analysis(d) == GroupAnalysis("sales_by_channel", "channel", d)

\* SalesAnalyzer.execute from line 94 on, for the four analysis types above.
SalesExecute(analysis_type) ==
    /\ analysis = NoAnalysis
    /\ analysis' = IF analysis_type = "basic_stats" THEN basic_stats_analysis(df)
                   ELSE IF analysis_type = "sales_by_region" THEN region_analysis(df)
                   ELSE IF analysis_type = "sales_by_product" THEN product_analysis(df)
                   ELSE channel_analysis(df)
    /\ UNCHANGED <<df, regVars, searchVars, loopVars>>

SalesInit ==
    /\ RegInit
    /\ SearchIdle
    /\ LoopIdle
    /\ df \in SalesTables
    /\ analysis = NoAnalysis

NextSales ==
    \/ SalesExecute("basic_stats")
    \/ SalesExecute("sales_by_region")
    \/ SalesExecute("sales_by_product")
    \/ SalesExecute("sales_by_channel")

SpecSales == SalesInit /\ [][NextSales]_vars

-----------------------------------------------------------------------------
(* AbilityHandler *)

Response(status, success) == [status |-> status, success |-> success]

\* A mutant of respond: every error is reported as an internal server error.
respond_allInternal(out) ==
    IF out.kind = "return" THEN Response(200, TRUE) ELSE Response(500, FALSE)

\* AbilityHandler.post, lines 32-46 (and get, lines 75-86): the response
\* written for what execute_ability returned or raised. A returned value is
\* written as {"success": True, "data": result} with the default status 200.
respond(out) ==
    IF out.kind = "return" THEN Response(200, TRUE)
    ELSE CASE out.err.type = "KeyError" -> Response(404, FALSE)
           [] out.err.type = "ValueError" -> Response(400, FALSE)
           [] OTHER -> Response(500, FALSE)

\* What execute_ability hands to the handler for a product_search request
\* whose execute call has returned `result` (ability_manager.py, line 51).
SearchDispatchOutcome ==
    Out("return", IF result.success THEN "search success" ELSE "search failure", NoError)

-----------------------------------------------------------------------------
(* The server: dispatches served by one event loop *)

\* make_app (server.py, lines 33-39): the registry the handlers share.
ServerAbilities ==
    register(register(register(register(EmptyDict, WebCrawlerAbility), SalesAnalyzer),
                      LoginAbility), ProductSearchAbility)

\* Requests for capabilities other than the search, as AbilityHandler.post
\* hands them to execute_ability (handlers.py, lines 32-33).
UnrelatedRequests ==
    {[name |-> "web_crawler", context |-> [url |-> Str("https://example.com")]],
     [name |-> "login", context |-> [username |-> Str("admin"), password |-> Str("admin123")]]}

\* The engine the served search talks to: its searches fail or are answered
\* with no hit or with one hit that is kept.
ServerSearchOutcomes ==
    {o \in SearchOutcomes : o.kind = "response" =>
        /\ o.resp.total.shape = "value"
        /\ o.resp.hits \in {<<>>, <<min_score>>}}

\* A mutant of SearchSuspensionPoints: the calls of the engine are awaited.
SearchSuspensionPoints_atEngineCalls == {"primary", "fallback"}

\* The positions at which execute hands the thread back to the event loop
\* while it waits: none. execute and the methods it calls contain no await;
\* the backoff is time.sleep (lines 344, 367, 462, 479) and the client is the
\* synchronous Elasticsearch client (lines 100, 113, 280, 349, 411, 466).
SearchSuspensionPoints == {}

\* The positions at which execute_ability hands the thread back: none for
\* these capabilities, whose validate and execute coroutines do not suspend.
DispatchSuspensionPoints == {}

\* The coroutine that holds the thread of the IOLoop (server.py, line 63).
Running ==
    IF s_pc \notin {"idle", "done"} \cup SearchSuspensionPoints THEN "search"
    ELSE IF pc \notin {"ready"} \cup DispatchSuspensionPoints THEN "dispatch"
    ELSE "none"

\* The event loop runs step A of a task: no other coroutine holds the thread.
OnLoop(task, A) == Running \in {"none", task} /\ A

\* A step of the dispatch of an unrelated request.
Dispatch_Step ==
    \/ \E r \in UnrelatedRequests :
          OnLoop("dispatch", ExecuteAbility_Lookup(r.name, r.context))
    \/ OnLoop("dispatch", ExecuteAbility_Validate)
    \/ OnLoop("dispatch", ExecuteAbility_Execute)

ServerInit ==
    /\ abilities = ServerAbilities
    /\ regLog = <<WebCrawlerAbility, SalesAnalyzer, LoginAbility, ProductSearchAbility>>
    /\ pc = "ready"
    /\ op = "register"
    /\ name = "product_search"
    /\ context = <<>>
    /\ context0 = <<>>
    /\ ability = NoAbility
    /\ calls = <<>>
    /\ vres = NoValidation
    /\ eres = NoResult
    /\ outcome = Out("return", "None", NoError)
    /\ SearchInit
    /\ fallback_enabled
    /\ SalesIdle
    /\ LoopIdle

NextServer ==
    \/ \E r \in UnrelatedRequests :
          OnLoop("dispatch", ExecuteAbility_Lookup(r.name, r.context))
    \/ OnLoop("dispatch", ExecuteAbility_Validate)
    \/ OnLoop("dispatch", ExecuteAbility_Execute)
    \/ \E ctx \in SearchContexts : OnLoop("search", Execute_Begin(ctx))
    \/ \E c \in ConnOutcomes : OnLoop("search", Execute_GetClient(c))
    \/ \E o \in ServerSearchOutcomes : OnLoop("search", Primary_Search(o))
    \/ \E p \in PingOutcomes, c1, c2 \in ConnOutcomes :
          OnLoop("search", Primary_Probe(p, c1, c2))
    \/ OnLoop("search", Primary_Retry)
    \/ \E kw \in fallback_keywords : OnLoop("search", Fallback_Choose(kw))
    \/ \E o \in ServerSearchOutcomes : OnLoop("search", Fallback_Search(o))
    \/ \E p \in PingOutcomes, c1, c2 \in ConnOutcomes :
          OnLoop("search", Fallback_Probe(p, c1, c2))
    \/ OnLoop("search", Fallback_Retry)

SpecServer == ServerInit /\ [][NextServer]_vars

\* A dispatch that has looked its capability up and is about to validate.
ValidateInit ==
    /\ abilities = ServerAbilities
    /\ regLog = <<WebCrawlerAbility, SalesAnalyzer, LoginAbility, ProductSearchAbility>>
    /\ pc = "validate"
    /\ op = "execute_ability"
    /\ ability \in {ServerAbilities[n] : n \in DOMAIN ServerAbilities}
    /\ name = ability.name
    /\ context \in ValidationContexts(ability.cls)
    /\ context0 = context
    /\ calls = <<>>
    /\ vres = NoValidation
    /\ eres = NoResult
    /\ outcome = Out("none", "", NoError)
    /\ SearchIdle
    /\ SalesIdle
    /\ LoopIdle

NextValidate == ExecuteAbility_Validate

SpecValidate == ValidateInit /\ [][NextValidate]_vars

-----------------------------------------------------------------------------
(* Two search invocations on one ProductSearchAbility instance *)

\* The engine the two invocations talk to: a search raises ConnectionError or
\* is answered with one hit that is kept; a ping answers true or false.
PairSearchOutcomes ==
    {o \in SearchOutcomes :
        \/ o.kind = "ConnectionError"
        \/ o.kind = "response" /\ o.resp = [hits |-> <<min_score>>,
                                             total |-> TotalField("value", 2)]}

PairConnOutcomes == {"ok", "ping_false"}

PairPingOutcomes == {"true", "false"}

PairContexts == {[keyword |-> <<" ", "a", " ">>]}

\* The running invocation is at a point where the event loop can run another
\* coroutine: it has not started, it has returned, or it is suspended.
Yields == s_pc \in {"idle", "done"} \cup SearchSuspensionPoints

\* The other invocation is suspended in a call of es_client.search.
PeerMidQuery == peer.s_pc \in {"primary", "fallback"}

\* A second product_search request is accepted by the server while an
\* invocation is in flight (handlers.py, lines 25-33).
Arrive ==
    /\ s_pc \notin {"idle", "done"}
    /\ peer.s_pc \in {"idle", "done"}
    /\ ~queued
    /\ queued' = TRUE
    /\ UNCHANGED <<regVars, searchVars, salesVars, peer>>

\* The event loop runs the other invocation: the running coroutine's frame is
\* put aside and the other one's is resumed, or started for a queued request.
Switch ==
    /\ Yields
    /\ queued \/ peer.s_pc \notin {"idle", "done"}
    /\ peer' = Frame
    /\ queued' = (queued /\ peer.s_pc \notin {"idle", "done"})
    /\ s_pc' = peer.s_pc
    /\ s_context' = peer.s_context
    /\ keyword' = peer.keyword
    /\ ex_client' = peer.ex_client
    /\ fn_client' = peer.fn_client
    /\ attempt' = peer.attempt
    /\ last_exception' = peer.last_exception
    /\ random_keyword' = peer.random_keyword
    /\ search_results' = peer.search_results
    /\ result' = peer.result
    /\ caught' = peer.caught
    /\ log' = peer.log
    /\ p_response' = peer.p_response
    /\ f_response' = peer.f_response
    /\ es_client0' = peer.es_client0
    /\ UNCHANGED <<es_client, fallback_enabled, regVars, salesVars>>

PairInit == ServerInit

NextPair ==
    \/ Arrive
    \/ Switch
    \/ \E ctx \in PairContexts : Execute_Begin(ctx)
    \/ \E c \in PairConnOutcomes : Execute_GetClient(c)
    \/ \E o \in PairSearchOutcomes : Primary_Search(o)
    \/ \E p \in PairPingOutcomes, c1, c2 \in PairConnOutcomes : Primary_Probe(p, c1, c2)

SpecPair == PairInit /\ [][NextPair]_vars

-----------------------------------------------------------------------------
(* Properties of the registry, checked under Spec *)

\* The names registered so far, and the capability last registered under a
\* name, both read off the history of register calls.
RegisteredNames == {regLog[i].name : i \in 1..Len(regLog)}

LatestIndex(n) ==
    CHOOSE i \in 1..Len(regLog) :
        /\ regLog[i].name = n
        /\ \A j \in (i+1)..Len(regLog) : regLog[j].name # n

Latest(n) == regLog[LatestIndex(n)]

Invoked(method) == {i \in 1..Len(calls) : calls[i][1] = method}

\* C1: execute_ability of a name that is not registered fails with a KeyError
\* carrying that name, and no capability's validate or execute is invoked.
C1_UnregisteredNotFound ==
    (op = "execute_ability" /\ name \notin RegisteredNames) =>
        /\ pc = "ready"
        /\ outcome.kind = "raise"
        /\ outcome.err.type = "KeyError"
        /\ outcome.err.arg = name
        /\ calls = <<>>

C1_Witness ==
    /\ op = "execute_ability"
    /\ name \notin RegisteredNames
    /\ RegisteredNames # {}
    /\ outcome.kind = "raise"

\* C2: in a dispatch to a registered capability, execute is invoked only after
\* validate was invoked on the same capability; when validate returned false,
\* execute is never invoked and the dispatch fails with a ValueError naming
\* the capability.
C2_ValidateBeforeExecute ==
    (op = "execute_ability" /\ name \in RegisteredNames) =>
        /\ \A i \in Invoked("execute") :
              \E j \in Invoked("validate") : j < i /\ calls[j][2] = calls[i][2]
        /\ pc = "execute" => Invoked("validate") # {}
        /\ (vres.kind = "return" /\ ~vres.ret) =>
              /\ Invoked("execute") = {}
              /\ pc = "ready"
              /\ outcome.kind = "raise"
              /\ outcome.err.type = "ValueError"
              /\ outcome.err.arg = name

C2_Witness ==
    /\ op = "execute_ability"
    /\ vres.kind = "return" /\ ~vres.ret
    /\ outcome.err.type = "ValueError"
    /\ outcome.err.arg = "product_search"

\* C3: when validate itself raises, execute_ability raises that same error,
\* unchanged, and execute is never invoked.
C3_ValidateErrorPropagates ==
    (op = "execute_ability" /\ vres.kind = "raise") =>
        /\ pc = "ready"
        /\ outcome.kind = "raise"
        /\ outcome.err = vres.err
        /\ Invoked("execute") = {}

C3_Witness ==
    /\ op = "execute_ability"
    /\ ability.cls = "SalesAnalyzer"
    /\ vres.kind = "raise"
    /\ vres.err.msg = "Invalid analysis type"
    /\ outcome.kind = "raise"

\* C4: after any sequence of register calls, every registered name resolves to
\* the capability most recently registered under it, a dispatch runs that
\* capability, and list_abilities holds exactly one entry per registered name,
\* with the version of the latest registration.
C4_LastRegistrationWins ==
    /\ DOMAIN abilities = RegisteredNames
    /\ \A n \in RegisteredNames :
          /\ get_ability(abilities, n).kind = "return"
          /\ get_ability(abilities, n).ability = Latest(n)
    /\ list_abilities(abilities) = [n \in RegisteredNames |-> Latest(n).version]
    /\ (op = "execute_ability" /\ pc # "ready") => ability = Latest(name)
    /\ \A i \in 1..Len(calls) : calls[i][2] = Latest(name)
    /\ op = "list_abilities" =>
          outcome.listing = [n \in RegisteredNames |-> Latest(n).version]

C4_Witness ==
    /\ \E i, j \in 1..Len(regLog) :
          i < j /\ regLog[i].name = regLog[j].name /\ regLog[i].version # regLog[j].version
    /\ op = "list_abilities"
    /\ outcome.listing["web_crawler"] = "2.0.0"

\* C5: when validate returned true, the dispatch invokes validate once and
\* execute once, and returns exactly the value execute returned, or raises
\* exactly the error execute raised.
C5_ExecuteResultUnchanged ==
    (op = "execute_ability" /\ pc = "ready" /\ vres.kind = "return" /\ vres.ret) =>
        /\ calls = << <<"validate", ability>>, <<"execute", ability>> >>
        /\ outcome.kind = eres.kind
        /\ outcome.ret = eres.ret
        /\ outcome.err = eres.err

C5_Witness ==
    /\ op = "execute_ability"
    /\ pc = "ready"
    /\ vres.kind = "return" /\ vres.ret
    /\ eres.kind = "raise"
    /\ outcome.kind = "raise"

\* C6: execute_ability, get_ability and list_abilities leave the registry
\* mapping unchanged, the context handed to a dispatch is never modified, and
\* no step removes a registered name.
C6_RegistryFrame ==
    [][ /\ (op' \in {"execute_ability", "get_ability", "list_abilities"}
               => abilities' = abilities)
        /\ DOMAIN abilities \subseteq DOMAIN abilities'
        /\ context' = context0'
        /\ (pc # "ready" => context' = context) ]_vars

C6_Witness ==
    /\ op = "execute_ability"
    /\ pc = "ready"
    /\ Len(calls) = 2
    /\ context # <<>>
    /\ Cardinality(DOMAIN abilities) >= 3

\* validate did not accept the context: it returned false or raised.
ValidationFailed == vres.kind = "raise" \/ (vres.kind = "return" /\ ~vres.ret)

\* C23: through AbilityHandler, a request for an unregistered name is answered
\* with 404 and a request whose context fails validation with 400; in both
\* cases execute is not run and nothing is called a second time.
C23_ClientErrors ==
    (pc = "ready" /\ op = "execute_ability") =>
        /\ name \notin DOMAIN abilities =>
              /\ respond(outcome) = Response(404, FALSE)
              /\ calls = <<>>
        /\ ValidationFailed =>
              /\ respond(outcome) = Response(400, FALSE)
              /\ calls = <<<<"validate", ability>>>>
              /\ eres = NoResult

C23_Witness ==
    /\ pc = "ready"
    /\ op = "execute_ability"
    /\ name = "login"
    /\ vres = Returned(FALSE)
    /\ respond(outcome) = Response(400, FALSE)
    /\ calls = <<<<"validate", LoginAbility>>>>

\* C40: AbilityHandler answers 404 only when the requested name is
\* unregistered and 400 only when validation failed (or the body was
\* malformed, which ends the request before the dispatch): an error raised
\* inside a registered capability's execute is never reported as 404 or 400.
C40_ExecuteErrorsAreServerErrors ==
    (pc = "ready" /\ op = "execute_ability") =>
        /\ respond(outcome).status = 404 => name \notin DOMAIN abilities
        /\ respond(outcome).status = 400 => ValidationFailed
        /\ eres.kind = "raise" => respond(outcome).status \notin {404, 400}

-----------------------------------------------------------------------------
(* Properties of the search capability, checked under SpecSearch *)

\* A keyword that is empty or made of whitespace only.
IsBlank(k) == \A i \in 1..Len(k) : k[i] \in Whitespace

Issued(what) == {i \in 1..Len(log) : log[i].call = what}

\* C7: for a keyword that is empty or whitespace-only, execute returns
\* success=false, no results, total=0 and is_fallback=false, makes no external
\* call (no client created, no ping, no search), and leaves the stored handle
\* as it was.
C7_BlankKeywordNoExternalCall ==
    (s_pc # "idle" /\ has(s_context, "keyword") /\ IsBlank(s_context["keyword"])) =>
        /\ s_pc = "done"
        /\ ~result.success
        /\ result.results = <<>>
        /\ result.total = 0
        /\ ~result.is_fallback
        /\ log = <<>>
        /\ es_client = es_client0

C7_Witness ==
    /\ s_pc = "done"
    /\ has(s_context, "keyword")
    /\ s_context["keyword"] = <<" ", " ", " ">>
    /\ es_client0 # NoClient
    /\ result = EmptyKeywordResult

\* C8: no item of a primary (non-fallback) result scores below the minimum
\* score, whatever the engine responded.
C8_NoLowScoreInPrimaryResult ==
    /\ \A i \in 1..Len(search_results.results) :
          search_results.results[i].score >= min_score
    /\ ~result.is_fallback =>
          \A i \in 1..Len(result.results) : result.results[i].score >= min_score

C8_Witness ==
    /\ s_pc = "done"
    /\ ~fallback_enabled
    /\ search_results.success
    /\ \E i \in 1..Len(p_response.hits) : p_response.hits[i] < min_score
    /\ result = search_results

\* C9: a primary query that was answered gives success=true and
\* is_fallback=false, total = the number of hits kept by the score filter,
\* original_total = the total-hit count the engine reported; with a kept hit
\* that is what execute returns.
C9_PrimaryResultCounts ==
    search_results.success =>
        /\ ~search_results.is_fallback
        /\ search_results.total = Len(search_results.results)
        /\ search_results.total =
              Cardinality({i \in 1..Len(p_response.hits) : p_response.hits[i] >= min_score})
        /\ p_response.total.shape \in EngineTotalShapes =>
              search_results.original_total = IntTotal(p_response.total.n)
        /\ (s_pc = "done" /\ search_results.total > 0) => result = search_results

C9_Witness ==
    /\ s_pc = "done"
    /\ p_response.hits = <<min_score>>
    /\ p_response.total = TotalField("value", 2)
    /\ result.success
    /\ ~result.is_fallback
    /\ result.total = 1
    /\ result.original_total = IntTotal(2)

AllBelowMin(hits) == hits # <<>> /\ \A i \in 1..Len(hits) : hits[i] < min_score

\* C10: when the primary hits all score below the minimum and fallback is
\* enabled, the fallback query is issued and the result execute returns is the
\* fallback result (is_fallback=true).
C10_LowScoresGiveFallbackResult ==
    (s_pc = "done" /\ fallback_enabled /\ search_results.success
        /\ AllBelowMin(p_response.hits)) =>
        /\ Issued("search_fallback") # {}
        /\ result.is_fallback

\* Attempt number n of the query `what` was made in this invocation, and its
\* place in the log.
Attempted(what, n) == \E i \in Issued(what) : log[i].n = n

AttemptIndex(what, n) == CHOOSE i \in Issued(what) : log[i].n = n

\* Attempt n was made and was followed by a probe of the connection before
\* attempt n + 1: it failed with a connectivity error and was not the last.
ProbedAfter(what, n) ==
    /\ Attempted(what, n)
    /\ Attempted(what, n + 1)
    /\ \E j \in Issued("ping") : AttemptIndex(what, n) < j /\ j < AttemptIndex(what, n + 1)

\* The primary query failed with connectivity errors on attempts 1 and 2 and
\* was answered on attempt 3.
ThirdPrimaryAttemptAnswered ==
    /\ ProbedAfter("search_primary", 1)
    /\ ProbedAfter("search_primary", 2)
    /\ search_results.success

ThreeConnectivityFailures(what) ==
    /\ ProbedAfter(what, 1)
    /\ ProbedAfter(what, 2)
    /\ log[Len(log)] = Call(what, log[Len(log)].h, max_attempts)
    /\ (IF what = "search_primary" THEN p_response ELSE f_response) = NoResponse
    /\ last_exception = "ConnectionError"
    /\ s_pc = "done"

\* C12: when the primary query fails with a connectivity error on all 3
\* attempts, execute ends with the error reaching its caller: the exception is
\* not caught inside execute and no result value is returned.
C12_PrimaryExhaustionRaises ==
    ThreeConnectivityFailures("search_primary") =>
        /\ caught = ""
        /\ result = NoSearchResult

\* C13: when the fallback query fails with a connectivity error on all 3
\* attempts, execute returns a value with success=false, is_fallback=true,
\* fallback_keyword = the keyword chosen, and no results.
C13_FallbackExhaustionReturns ==
    ThreeConnectivityFailures("search_fallback") =>
        /\ caught = ""
        /\ ~result.success
        /\ result.is_fallback
        /\ result.fallback_keyword = random_keyword
        /\ result.fallback_keyword \in fallback_keywords
        /\ result.results = <<>>
        /\ result.total = 0

C13_Witness ==
    /\ ThreeConnectivityFailures("search_fallback")
    /\ Cardinality(Issued("search_fallback")) = 3
    /\ result = Marked(FallbackFailedResult("bracelet"), keyword)

\* C14: when the fallback query is answered, the result execute returns has
\* success=true and is_fallback=true, its fallback_keyword is the keyword
\* chosen, a member of the configured keywords, and every item carries
\* is_fallback=true and that fallback_keyword.
C14_FallbackResultTagged ==
    f_response # NoResponse =>
        /\ s_pc = "done"
        /\ result.success
        /\ result.is_fallback
        /\ result.fallback_keyword = random_keyword
        /\ result.fallback_keyword \in fallback_keywords
        /\ Len(result.results) = Len(f_response.hits)
        /\ \A i \in 1..Len(result.results) :
              /\ result.results[i].is_fallback
              /\ result.results[i].fallback_keyword = result.fallback_keyword

C14_Witness ==
    /\ s_pc = "done"
    /\ f_response.hits = <<min_score - 1>>
    /\ result.success
    /\ result.is_fallback
    /\ result.fallback_keyword = "earring"
    /\ result.results = <<Product(min_score - 1, TRUE, "earring")>>

\* C15: a fallback query is issued only when, in the same invocation, the
\* primary query was answered, no hit passed the score filter and the fallback
\* is enabled: never after a failed primary query, after a primary query with a
\* kept hit, or for an empty keyword.
C15_FallbackOnlyAfterEmptyPrimary ==
    (s_pc \in {"fallback_choose", "fallback", "fallback_backoff"}
        \/ Issued("search_fallback") # {}) =>
        /\ fallback_enabled
        /\ p_response # NoResponse
        /\ search_results.success
        /\ search_results.total = 0
        /\ \A i \in 1..Len(p_response.hits) : ~KeepHit(p_response.hits[i])
        /\ keyword # <<>>
        /\ caught \notin {"connect", "exhausted"}
        /\ \A i \in Issued("search_fallback"), j \in Issued("search_primary") : j < i

C15_Witness ==
    /\ s_pc = "done"
    /\ Issued("search_fallback") # {}
    /\ Cardinality(Issued("search_primary")) = 2
    /\ p_response.hits = <<min_score - 1>>
    /\ fallback_enabled
    /\ result.is_fallback

\* C16: when the primary query is answered with no hit passing the score
\* filter and the fallback is disabled, execute returns success=true, no
\* results and is_fallback=false, and issues no fallback query.
C16_NoFallbackWhenDisabled ==
    (s_pc = "done" /\ ~fallback_enabled /\ search_results.success
        /\ search_results.total = 0) =>
        /\ result.success
        /\ result.results = <<>>
        /\ result.total = 0
        /\ ~result.is_fallback
        /\ Issued("search_fallback") = {}
        /\ random_keyword = ""

C16_Witness ==
    /\ s_pc = "done"
    /\ ~fallback_enabled
    /\ p_response.hits = <<min_score - 1>>
    /\ result = FuzzyResult(p_response)
    /\ result.results = <<>>
    /\ Issued("search_fallback") = {}

\* The ways the ping of a client being created fails: it returns false or raises.
FailedPings == {"ping_false", "ping_raises"}

\* C17: when a client is being created and its ping returns false or raises,
\* no client is stored afterwards and the acquisition raises the connection
\* error; an invocation ended by it leaves the stored handle absent and has
\* pinged the client it created as its last external call.
C17_FailedPingNotStored ==
    /\ \A c \in FailedPings :
          LET g == GetEsClient(NoClient, {ex_client, fn_client}, c)
          IN /\ g.client = NoClient
             /\ g.raised
             /\ g.calls[Len(g.calls)].call = "ping"
    /\ caught \in {"connect", "reconnect"} =>
          /\ es_client = NoClient
          /\ s_pc = "done"
          /\ result = SearchErrorResult
          /\ Len(log) >= 2
          /\ log[Len(log) - 1].call = "create"
          /\ log[Len(log)] = Call("ping", log[Len(log) - 1].h, 0)

C17_Witness ==
    /\ s_pc = "done"
    /\ caught = "connect"
    /\ es_client0 = NoClient
    /\ es_client = NoClient
    /\ log = <<Call("create", 1, 0), Call("ping", 1, 0)>>
    /\ ~result.success

\* No operation of this invocation has failed so far.
NoFailureYet ==
    /\ last_exception = "None"
    /\ Issued("sleep") = {}
    /\ caught = ""

\* C18: an invocation that starts with a handle stored keeps and uses that
\* handle and creates no client, as long as none of its operations failed.
C18_HandleReused ==
    (s_pc # "idle" /\ es_client0 # NoClient /\ NoFailureYet) =>
        /\ es_client = es_client0
        /\ Issued("create") = {}
        /\ Issued("ping") = {}
        /\ \A i \in Issued("search_primary") \cup Issued("search_fallback") :
              log[i].h = es_client0
        /\ ex_client \in {NoClient, es_client0}

C18_Witness ==
    /\ s_pc = "done"
    /\ es_client0 # NoClient
    /\ NoFailureYet
    /\ result.success
    /\ result.is_fallback
    /\ log = <<Call("search_primary", es_client0, 1), Call("search_fallback", es_client0, 1)>>

\* The invocation ended because its query failed on the last attempt: the
\* handle the failed search was sent on.
QueryFailedOn ==
    IF s_pc = "done" /\ Len(log) > 0
          /\ log[Len(log)].call \in {"search_primary", "search_fallback"}
          /\ log[Len(log)].n = max_attempts
          /\ (IF log[Len(log)].call = "search_primary" THEN p_response ELSE f_response)
                = NoResponse
    THEN log[Len(log)].h
    ELSE NoClient

\* C19: when a query against the stored handle fails, the stored handle is
\* made absent, so an invocation that ended in a query failure leaves no
\* handle stored and the next invocation has to create a client.
C19_FailedHandleInvalidated ==
    (QueryFailedOn # NoClient) => es_client = NoClient

\* C22: when the engine cannot be reached or the primary query has used up
\* its attempts, the request is answered by AbilityHandler with a response of
\* the server-error class, not with a success.
C22_SearchFailureIsServerError ==
    (s_pc = "done" /\ caught \in {"connect", "exhausted"}) =>
        /\ respond(SearchDispatchOutcome).status >= 500
        /\ ~respond(SearchDispatchOutcome).success

\* An invocation is between its call and its return.
SearchRunning == s_pc \notin {"idle", "done"}

\* The steps an invocation can still take at most: a variant of the two retry
\* loops.
SearchRank ==
    CASE s_pc = "get_client" -> 14
      [] s_pc = "primary" -> 13 - 2 * attempt
      [] s_pc = "primary_backoff" -> 12 - 2 * attempt
      [] s_pc = "fallback_choose" -> 7
      [] s_pc = "fallback" -> 6 - 2 * attempt
      [] s_pc = "fallback_backoff" -> 5 - 2 * attempt
      [] OTHER -> 0

\* C29: every search invocation, once started, runs to completion whatever
\* the engine answers: every step of a running invocation lowers a natural
\* number, the invocation issues at most 3 primary and at most 3 fallback
\* search requests, and when it has ended it has returned a result: a success,
\* the search error of the primary path or the failure of the fallback path.
C29_SearchTerminates ==
    /\ [](/\ SearchRank \in 0..14
          /\ SearchRunning => SearchRank > 0
          /\ Cardinality(Issued("search_primary")) <= max_attempts
          /\ Cardinality(Issued("search_fallback")) <= max_attempts
          /\ s_pc = "done" =>
                 \/ result.success
                 \/ result = EmptyKeywordResult
                 \/ result = SearchErrorResult
                 \/ result = Marked(FallbackFailedResult(random_keyword), keyword))
    /\ [][SearchRunning => SearchRank' < SearchRank]_vars

C29_Witness ==
    /\ s_pc = "done"
    /\ Cardinality(Issued("search_primary")) = max_attempts
    /\ Cardinality(Issued("search_fallback")) = max_attempts
    /\ result = Marked(FallbackFailedResult(random_keyword), keyword)

\* The waits made after failed attempt n of a loop: the sleeps that follow the
\* n-th search request in the log.
WaitsAfter(what, n) ==
    {log[i + 1].n : i \in {j \in Issued(what) :
                              /\ log[j].n = n
                              /\ j < Len(log)
                              /\ log[j + 1].call = "sleep"}}

\* Attempt n of a loop has failed: its request is in the log and it is not the
\* request the engine answered (the answered request is the loop's last).
FailedAttempt(what, n) ==
    /\ Attempted(what, n)
    /\ \/ (IF what = "search_primary" THEN p_response ELSE f_response) = NoResponse
       \/ \E i \in Issued(what) : i > AttemptIndex(what, n)

\* C30: in both retry loops the wait after failed attempt k (k = 1, 2) is
\* exactly k base units, for connectivity and other failures alike, and no
\* wait follows the failed third attempt.
C30_LinearBackoff ==
    \A what \in {"search_primary", "search_fallback"} :
        /\ \A k \in 1..(max_attempts - 1) :
               FailedAttempt(what, k) => WaitsAfter(what, k) = {k}
        /\ WaitsAfter(what, max_attempts) = {}
        /\ \A i \in Issued("sleep") :
               i > 1 /\ log[i - 1].call \in {"search_primary", "search_fallback"}

C30_Witness ==
    /\ s_pc = "done"
    /\ caught = "exhausted"
    /\ WaitsAfter("search_primary", 1) = {1}
    /\ WaitsAfter("search_primary", 2) = {2}
    /\ log[Len(log)] = Call("search_primary", fn_client, max_attempts)
    /\ last_exception = "Exception"

-----------------------------------------------------------------------------
(* Properties of the server, checked under SpecServer *)

\* The search invocation is waiting: in the backoff sleep after a failed
\* attempt, or at a call of the engine (client creation and ping, search).
InBackoff == s_pc \in {"primary_backoff", "fallback_backoff"}

OnEngineIO == s_pc \in {"get_client", "primary", "fallback"}

\* C20: while a search invocation waits in backoff or on the engine, the
\* dispatch of a request for an unrelated capability can take its next step
\* (start, validate, execute): the wait does not hold up the other dispatch.
C20_SearchWaitsLetOthersRun ==
    (InBackoff \/ OnEngineIO) => ENABLED Dispatch_Step

-----------------------------------------------------------------------------
(* Properties of two search invocations, checked under SpecPair *)

\* C21: of two search invocations on one instance, neither creates,
\* invalidates or replaces the stored handle while the other is in the middle
\* of a query.
C21_HandleChangeExcludesPeerQuery ==
    [][es_client' # es_client => ~PeerMidQuery]_vars

C21_Witness ==
    /\ queued
    /\ s_pc = "primary"
    /\ attempt = 1
    /\ es_client0 = NoClient
    /\ Cardinality(Issued("create")) = 2
    /\ es_client # NoClient
    /\ es_client # log[1].h

-----------------------------------------------------------------------------
(* Properties of the validators, checked under SpecValidate *)

\* validate has run and accepted the context.
Accepted == vres.kind = "return" /\ vres.ret

\* C24: validate of a registered capability accepts a context only if every
\* key its execute requires is present with a value of the type execute
\* needs (str).
C24_ValidateChecksTypes ==
    Accepted =>
        \A k \in RequiredKeys(ability.cls) : has(context, k) /\ context[k] \notin {IntV, NoneV}

\* C25: WebCrawlerAbility.validate returns true exactly when the context has
\* a 'url' whose value is a string, and returns false, without raising, for
\* every other context.
C25_WebCrawlerValidate ==
    (ability.cls = "WebCrawlerAbility" /\ vres # NoValidation) =>
        /\ vres.kind = "return"
        /\ vres.ret <=> (has(context, "url") /\ context["url"] \notin {IntV, NoneV})

C25_Witness ==
    /\ ability = WebCrawlerAbility
    /\ context = [url |-> IntV]
    /\ vres = Returned(FALSE)
    /\ respond(outcome) = Response(400, FALSE)

\* The six analysis types SalesAnalyzer supports.
SupportedAnalysisTypes ==
    {Str("basic_stats"), Str("sales_by_region"), Str("sales_by_product"),
     Str("sales_by_channel"), Str("profit_analysis"), Str("visualization")}

\* C26: SalesAnalyzer.validate returns true for a context with file_url and
\* with analysis_type one of the six supported types, and raises ValueError,
\* never returning false, for every context that lacks either field or names
\* another analysis type.
C26_SalesAnalyzerValidate ==
    (ability.cls = "SalesAnalyzer" /\ vres # NoValidation) =>
        IF /\ has(context, "file_url")
           /\ has(context, "analysis_type")
           /\ context["analysis_type"] \in SupportedAnalysisTypes
        THEN vres = Returned(TRUE)
        ELSE vres.kind = "raise" /\ vres.err.type = "ValueError"

C26_Witness ==
    /\ ability = SalesAnalyzer
    /\ context = [file_url |-> Str("https://example.com"), analysis_type |-> Str("forecast")]
    /\ vres.kind = "raise"
    /\ vres.err.type = "ValueError"
    /\ pc = "ready"

-----------------------------------------------------------------------------
(* Properties of the sales analyses, checked under SpecSales *)

\* C27: for every sales table, the basic-stats analysis returns total_sales
\* equal to the sum of the rows' total_sales, total_profit equal to the sum
\* of the rows' profit, and total_orders equal to the number of rows.
C27_BasicStatsTotals ==
    analysis.kind = "basic_stats" =>
        /\ analysis.total_sales = ColumnSum(df, "total_sales")
        /\ analysis.total_profit = ColumnSum(df, "profit")
        /\ analysis.total_orders = Len(df)

C27_Witness ==
    /\ analysis.kind = "basic_stats"
    /\ Len(df) = 2
    /\ analysis.total_sales = 3
    /\ analysis.total_profit = 1
    /\ analysis.total_orders = 2

\* The column an analysis groups by.
GroupColumn(kind) ==
    CASE kind = "sales_by_region" -> "region"
      [] kind = "sales_by_product" -> "product"
      [] kind = "sales_by_channel" -> "channel"

\* The sum of the entries' total_sales.
RECURSIVE GroupTotals(_)
GroupTotals(groups) ==
    IF DOMAIN groups = {} THEN 0
    ELSE LET g == CHOOSE k \in DOMAIN groups : TRUE
         IN  groups[g].total_sales
                 + GroupTotals([k \in DOMAIN groups \ {g} |-> groups[k]])

-----------------------------------------------------------------------------
(* Properties of the retry loops' reconnection, checked under SpecSearch *)

\* The entries a step has added to the log.
Logged == SubSeq(log', Len(log) + 1, Len(log'))

\* C31: after a connectivity failure on a non-final attempt of the primary
\* loop the existing connection is pinged before the next attempt; if the
\* ping returns false or raises, the stored handle is dropped and a new handle
\* is created, and the next search attempt goes out on the new handle, never
\* on the old one; if the ping succeeds the same handle is kept.
C31_ProbeBeforeRetry ==
    [][/\ \A p \in PingOutcomes, c1, c2 \in ConnOutcomes :
              Primary_Probe(p, c1, c2) =>
                  /\ Logged[1] = Call("ping", fn_client, 0)
                  /\ p = "true" =>
                         /\ Len(Logged) = 1
                         /\ es_client' = es_client
                         /\ fn_client' = fn_client
                         /\ s_pc' = "primary"
                  /\ p # "true" =>
                         /\ Len(Logged) >= 3
                         /\ Logged[2].call = "create"
                         /\ es_client' # es_client
                         /\ s_pc' = "primary" =>
                                /\ fn_client' # fn_client
                                /\ fn_client' = es_client'
                                /\ Logged[Len(Logged) - 1] = Call("create", fn_client', 0)
       /\ \A o \in SearchOutcomes :
              (Primary_Search(o) /\ attempt > 0 /\ last_exception = "ConnectionError") =>
                  /\ Logged[1] = Call("search_primary", fn_client, attempt + 1)
                  /\ log[Len(log)].call = "ping"
                  /\ log[Len(log)].h = fn_client
      ]_vars

C31_Witness ==
    /\ Attempted("search_primary", 1)
    /\ Attempted("search_primary", 2)
    /\ LET i == AttemptIndex("search_primary", 1)
           j == AttemptIndex("search_primary", 2)
       IN  /\ log[i + 1].call = "sleep"
           /\ log[i + 2] = Call("ping", log[i].h, 0)
           /\ log[j - 2] = Call("create", log[j].h, 0)
           /\ log[j].h # log[i].h
           /\ log[j].h = es_client

\* C32: after a failure of a primary search attempt that is not a
\* connectivity error the loop waits, issues no probe and leaves the stored
\* handle as it is; the next attempt goes out on the same handle.
C32_NoReconnectOnOtherFailure ==
    [][/\ Primary_Retry =>
              /\ log[Len(log)] = Call("sleep", 0, attempt + 1)
              /\ log' = log
              /\ es_client' = es_client
              /\ fn_client' = fn_client
       /\ \A o \in SearchOutcomes :
              (Primary_Search(o) /\ attempt > 0 /\ last_exception = "Exception") =>
                  /\ log[Len(log)] = Call("sleep", 0, attempt)
                  /\ log[Len(log) - 1] = Call("search_primary", fn_client, attempt)
                  /\ Logged[1] = Call("search_primary", fn_client, attempt + 1)
                  /\ fn_client = es_client
      ]_vars

C32_Witness ==
    /\ Attempted("search_primary", 2)
    /\ LET j == AttemptIndex("search_primary", 2)
       IN  /\ log[j - 1] = Call("sleep", 0, 1)
           /\ log[j - 2] = Call("search_primary", log[j].h, 1)
           /\ log[j].h = es_client
           /\ Cardinality(Issued("ping")) = 1

\* C33: once a connection has been acquired and the primary query started,
\* the invocation reports a failure of the primary query only after all 3
\* search attempts have been made and have failed: a connectivity error on
\* attempt 1 or 2, a failed probe or a failed reconnection never ends it.
C33_FailureOnlyAfterExhaustion ==
    (s_pc = "done" /\ Attempted("search_primary", 1) /\ p_response = NoResponse) =>
        /\ Cardinality(Issued("search_primary")) = max_attempts
        /\ caught = "exhausted"

-----------------------------------------------------------------------------
(* Properties of the total-hit count, checked under SpecTotals *)

\* The number the total-hit field of a response stands for.
ExpectedTotal(resp) ==
    IF resp.total.shape \in {"scalar", "value"} THEN resp.total.n ELSE Len(resp.hits)

\* C34: for every shape of the engine's total-hit field original_total is a
\* number: the scalar itself, the 'value' member of a structure that has one,
\* and the count of returned hits in every other case (field missing, or a
\* structure without a value member).
C34_OriginalTotalIsNumber ==
    /\ p_response # NoResponse =>
           search_results.original_total = IntTotal(ExpectedTotal(p_response))
    /\ f_response # NoResponse =>
           result.original_total = IntTotal(ExpectedTotal(f_response))

\* C35: whenever the fallback path runs, the chosen keyword is one of the
\* configured fallback keywords, and wherever the choice is made (whatever the
\* original keyword, in a first or a later invocation) every configured
\* keyword can be the choice.
C35_AnyFallbackKeyword ==
    /\ (s_pc \in {"fallback", "fallback_backoff"} \/ f_response # NoResponse) =>
           random_keyword \in fallback_keywords
    /\ (s_pc = "done" /\ result.is_fallback) =>
           result.fallback_keyword = random_keyword
    /\ s_pc = "fallback_choose" =>
           \A kw \in fallback_keywords : ENABLED Fallback_Choose(kw)

C35_Witness ==
    /\ s_pc = "done"
    /\ result.is_fallback
    /\ result.fallback_keyword = "bracelet"
    /\ keyword = <<"b">>
    /\ es_client0 # NoClient

\* C36: once the primary query has completed with zero hits after filtering
\* and fallback is enabled, every result the invocation returns has
\* is_fallback = true and carries the chosen fallback keyword, whatever fails
\* during the fallback phase.
C36_FallbackFailuresStayTagged ==
    (/\ s_pc = "done"
     /\ p_response # NoResponse
     /\ search_results.total = 0
     /\ fallback_enabled) =>
        /\ result.is_fallback
        /\ result.fallback_keyword = random_keyword
        /\ random_keyword \in fallback_keywords

\* C37: every search request of an invocation, the fallback query included,
\* is issued on the handle that is stored as the capability's connection at
\* that moment: after the primary loop has dropped and recreated the
\* connection the fallback query does not go out on the old handle.
C37_RequestsOnStoredHandle ==
    s_pc \in {"primary", "fallback"} => fn_client = es_client

\* The context of the invocation is one ProductSearchAbility.validate accepts.
AcceptedBySearch == validate("ProductSearchAbility", s_context) = Returned(TRUE)

\* C38: for every context ProductSearchAbility.validate accepts and every
\* behaviour of the engine, execute never raises: a finished invocation has
\* returned a result carrying success, results, total and is_fallback, also
\* when an exception was raised below execute.
C38_ExecuteNeverRaises ==
    (s_pc = "done" /\ AcceptedBySearch) =>
        /\ result # NoSearchResult
        /\ result.success \in BOOLEAN
        /\ result.results \in Seq([score : Scores, is_fallback : BOOLEAN,
                                   fallback_keyword : fallback_keywords \cup {""}])
        /\ result.total \in Nat
        /\ result.is_fallback \in BOOLEAN
        /\ caught # "" => result = SearchErrorResult

C38_Witness ==
    /\ s_pc = "done"
    /\ AcceptedBySearch
    /\ caught = "connect"
    /\ result = SearchErrorResult
    /\ log = <<Call("create", 1, 0), Call("ping", 1, 0)>>

\* C39: in every result execute returns, total is the number of items in
\* results, every item's is_fallback flag is the result's is_fallback flag,
\* and success = false implies that results is empty and total is 0.
C39_ResultConsistent ==
    s_pc = "done" =>
        /\ result.total = Len(result.results)
        /\ \A i \in 1..Len(result.results) :
               result.results[i].is_fallback = result.is_fallback
        /\ ~result.success => (result.results = <<>> /\ result.total = 0)

C39_Witness ==
    /\ s_pc = "done"
    /\ result.success
    /\ result.is_fallback
    /\ result.total = 1
    /\ Len(result.results) = 1
    /\ result.results[1].is_fallback
    /\ f_response.total.n = 2

====
